---- MODULE Spec2Model ----
(***************************************************************************)
(* Offline-first sales recording and synchronisation of the Maish sales    *)
(* app.  The repository holds several revisions of the same subsystem side *)
(* by side; each is modelled by its own specification over its own part of *)
(* the state:                                                              *)
(*                                                                         *)
(*   Spec     the offline queue of hooks/useOfflineSync.ts, the form of    *)
(*            components/SalesForm.tsx and the remote `sales' table         *)
(*   SpecDB   the IndexedDB store of the front-end only services/api       *)
(*            (getSalesFromDB, replaceUserSalesInDB, cleanupOldSales) and   *)
(*            pages/Dashboard.tsx                                           *)
(*   SpecApi  services/api.js: one localStorage list and                    *)
(*            syncLocalSalesToBackend                                       *)
(*   SpecForm  handleSubmit of components/SalesForm.tsx with its validation *)
(*            and both of its branches, over the queue of Spec              *)
(*   SpecOwner the queue of Spec with users who take turns on the device    *)
(*   SpecSupa the Supabase revision of services/api: the migration of the   *)
(*            per-user localStorage lists and replaceUserSales               *)
(*   SpecStorage the queue of Spec next to useWeeklyDataCleanup, with a      *)
(*            localStorage whose writes can fail                            *)
(*   SpecSweep services/api.js: cleanupOldSales over its list               *)
(*   SpecAuth contexts/AuthContext.tsx: the auth-state events and the       *)
(*            profile requests of fetchProfile                              *)
(*                                                                         *)
(* Money is kept exact.  A form amount is a whole number of cents (the      *)
(* input has step 0.01); the queue and the remote table of Spec store       *)
(* amount and commission in hundredths of a cent, so that amount * 0.02 is  *)
(* an integer.  IEEE rounding noise of the JavaScript doubles is not        *)
(* modelled.  A text is kept as its runs, <<[ch, n], ...>>: n times the     *)
(* character ch, so that a name of 200 characters is one run.              *)
(***************************************************************************)
EXTENDS Integers, Sequences, FiniteSets, Bags, TLC

\* ------------------------------------------------------------------ bounds
MaxSales == 3       \* sales saved to the offline queue in one behaviour
MaxPasses == 2      \* syncOfflineSales calls that get past their early returns
MaxDbSales == 2     \* records in the IndexedDB store
MaxApiSales == 2    \* saveSaleLocally calls of services/api.js in one behaviour
MaxHours == 49      \* hours on the clock
MaxMs == 1          \* milliseconds on the clock past a whole hour
MaxLegacySales == 2 \* sales saved to the per-user localStorage lists
MaxAuthEvents == 3  \* auth-state events of the Supabase client in one behaviour

\* ------------------------------------------------------------- vocabulary
Users == {"A", "B"}
NoUser == "none"
Hooks == {"dashboard", "form"}      \* the components that call useOfflineSync

\* What a submitted form can hold: the amount in cents, whether a receipt
\* file is attached, and whether the remote sink refuses the row for good.
SaleInputs ==
  { [cents |-> 250000, receipt |-> FALSE, rejected |-> FALSE,
     itemName |-> <<[ch |-> "a", n |-> 1]>>],
    [cents |-> 33,     receipt |-> FALSE, rejected |-> TRUE,
     itemName |-> <<[ch |-> "a", n |-> 1]>>] }

VARIABLES
  user,          \* AuthContext: the signed-in user's id, or NoUser
  navOnline,     \* navigator.onLine
  hook,          \* per useOfflineSync instance: mounted, isOnline, syncing, userId
  offlineQueue,  \* localStorage['maish_offline_sales']
  remoteSales,   \* rows of the remote `sales' table, a bag (listing sorts them)
  passes,        \* the syncOfflineSales calls in flight, a bag
  started,       \* history: the calls that got past their early returns
  nextId,        \* ids handed out so far (crypto.randomUUID never repeats)
  now,           \* the clock
  overlapped     \* history: two passes have been in flight at the same time

syncVars == <<user, navOnline, hook, offlineQueue, remoteSales, passes, started,
              nextId, now, overlapped>>

VARIABLES
  clock,         \* Date.now(), in ms
  idb,           \* the `sales' object store of MaishSalesDB (keyPath id)
  lsSales,       \* localStorage['maish_sales_data_<username>'], per username
  dbOp           \* the last operation on the store or the per-user list

dbVars == <<idb, lsSales, dbOp>>

VARIABLES
  salesData,     \* localStorage['maish_sales_data']
  backendSales,  \* the sales the backend has created, a bag
  apiSync,       \* the syncLocalSalesToBackend call in flight
  apiEnded,      \* the syncLocalSalesToBackend call that ended last
  apiSaved       \* history: the saveSaleLocally calls so far

apiVars == <<salesData, backendSales, apiSync, apiEnded, apiSaved>>

VARIABLES
  formLast       \* how the last handleSubmit of the form ended

formVars == <<formLast>>

VARIABLES
  credentials,   \* localStorage['maish_user_credentials']: a username, or NoUser
  supaSales,     \* rows of the Supabase `sales' table, a bag
  mig,           \* the migrateLocalDataToSupabase call in flight, or how the last ended
  legacySaved    \* history: the sales saved to the per-user localStorage lists

supaVars == <<credentials, supaSales, mig, legacySaved>>

VARIABLES
  showCleanupDialog  \* useWeeklyDataCleanup: its dialog is open

weeklyVars == <<showCleanupDialog>>

VARIABLES
  session,       \* the session of the Supabase client: its user's id, or NoUser
  mounted,       \* AuthProvider's effect: its `mounted' flag
  fetches,       \* the fetchProfile closures with a request or a timer pending, a bag
  authEvents     \* history: the auth-state events so far

authVars == <<session, mounted, fetches, authEvents>>

otherVars == <<weeklyVars, authVars>>

vars == <<syncVars, clock, dbVars, apiVars, formVars, supaVars, otherVars>>

\* What the steps of each specification leave alone.
notSync == <<clock, dbVars, apiVars, formVars, supaVars, otherVars>>

notDb == <<syncVars, apiVars, formVars, supaVars, otherVars>>

notApi == <<syncVars, dbVars, formVars, supaVars, otherVars>>

\* --------------------------------------------------------------- helpers
Range(s) == { s[i] : i \in 1..Len(s) }

\* Math.round(p / q) for p >= 0, q > 0: halves round up.
Round(p, q) == (2 * p + q) \div (2 * q)

Unmounted ==
  [mounted |-> FALSE, isOnline |-> FALSE, syncing |-> FALSE, userId |-> NoUser]

\* ------------------------------------------------- hooks/useOfflineSync.ts
\* getOfflineSales: the parsed queue.
getOfflineSales == offlineQueue

\* handleSubmit's commission (validated.amount * 0.02), in hundredths of a cent.
FormCommission(cents) == 2 * cents

\* What JSON.stringify and JSON.parse leave of the form's receiptFile: a File
\* has no enumerable property of its own, so it is stored as {}, and a form
\* without a file stores no receipt_file at all.
JsonFile(attached) == IF attached THEN "{}" ELSE "undefined"

\* The sale handleSubmit hands to saveOfflineSale, completed with id and
\* created_at, as the queue in localStorage gives it back.
NewOfflineSale(in, uid, id, t) ==
  [id |-> id, user_id |-> uid, item_name |-> in.itemName,
   amount |-> 100 * in.cents,
   commission |-> FormCommission(in.cents), receipt_file |-> JsonFile(in.receipt),
   created_at |-> t, rejected |-> in.rejected]

\* One call of syncOfflineSales, with the userId and the syncing flag its
\* closure holds: it goes past its two early returns or it does nothing.
WouldStart(c) == c.userId # NoUser /\ ~c.guard /\ getOfflineSales # <<>>

\* The call's locals when its loop starts.
NewPass(c) ==
  [hook |-> c.hook, userId |-> c.userId, offlineSales |-> getOfflineSales,
   idx |-> 1, failedSales |-> <<>>, successCount |-> 0]

\* overlapped after a step that leaves the passes ps in flight.
Overlap(ps) == overlapped \/ BagCardinality(ps) > 1

\* The passes in flight after the calls, made in a row.
RECURSIVE Launch(_, _)
Launch(ps, calls) ==
  IF calls = <<>> THEN ps
  ELSE Launch(IF WouldStart(Head(calls))
              THEN ps (+) SetToBag({NewPass(Head(calls))}) ELSE ps,
              Tail(calls))

Starting(calls) == { i \in 1..Len(calls) : WouldStart(calls[i]) }

\* setSyncing(true) of every call that started a pass.
MarkSyncing(hk, calls) ==
  [h \in Hooks |->
     IF \E i \in Starting(calls) : calls[i].hook = h
     THEN [hk[h] EXCEPT !.syncing = TRUE] ELSE hk[h]]

Call(h, uid, guard) == [hook |-> h, userId |-> uid, guard |-> guard]

\* The hook's mount effect: with navigator.onLine it calls the syncOfflineSales
\* of the first render (syncing = false).
MountCalls(h) == IF navOnline THEN <<Call(h, user, FALSE)>> ELSE <<>>

Mounted(uid) ==
  [mounted |-> TRUE, isOnline |-> navOnline, syncing |-> FALSE, userId |-> uid]

\* The dashboard mounts with its "Add Sale" tab, hence the form, open.  The
\* effects run child first: the form's hook, the dashboard's hook, then the
\* dashboard's own effect, which calls syncOfflineSales of that first render.
MountDashboard ==
  /\ user # NoUser
  /\ ~hook["dashboard"].mounted
  /\ LET calls == MountCalls("form") \o MountCalls("dashboard")
                   \o <<Call("dashboard", user, FALSE)>>
         hk == [h \in Hooks |-> Mounted(user)]
     IN /\ started + Cardinality(Starting(calls)) <= MaxPasses
        /\ passes' = Launch(passes, calls)
        /\ started' = started + Cardinality(Starting(calls))
        /\ overlapped' = Overlap(Launch(passes, calls))
        /\ hook' = MarkSyncing(hk, calls)
  /\ UNCHANGED <<user, navOnline, offlineQueue, remoteSales, nextId, now>>
  /\ UNCHANGED notSync

\* The user comes back to the "Add Sale" tab: the form mounts again.
MountForm ==
  /\ hook["dashboard"].mounted
  /\ ~hook["form"].mounted
  /\ LET calls == MountCalls("form")
         hk == [hook EXCEPT !["form"] = Mounted(user)]
     IN /\ started + Cardinality(Starting(calls)) <= MaxPasses
        /\ passes' = Launch(passes, calls)
        /\ started' = started + Cardinality(Starting(calls))
        /\ overlapped' = Overlap(Launch(passes, calls))
        /\ hook' = MarkSyncing(hk, calls)
  /\ UNCHANGED <<user, navOnline, offlineQueue, remoteSales, nextId, now>>
  /\ UNCHANGED notSync

\* A pass outlives the component that started it; its setSyncing(false) then
\* reaches no mounted instance.
Orphan(ps, h) ==
  LET orphaned(r) == IF r.hook = h THEN [r EXCEPT !.hook = "none"] ELSE r
  IN [t \in { orphaned(r) : r \in BagToSet(ps) } |->
        CopiesIn(t, ps)
        + (IF t.hook = "none" THEN CopiesIn([t EXCEPT !.hook = h], ps) ELSE 0)]

\* The user leaves the "Add Sale" tab: the form and its hook instance unmount.
UnmountForm ==
  /\ hook["form"].mounted
  /\ hook' = [hook EXCEPT !["form"] = Unmounted]
  /\ passes' = Orphan(passes, "form")
  /\ UNCHANGED <<user, navOnline, offlineQueue, remoteSales, started, nextId, now,
                 overlapped>>
  /\ UNCHANGED notSync

\* window 'online': every mounted instance runs handleOnline, which calls the
\* syncOfflineSales of its first render (syncing = false, the userId of the mount).
OnlineCalls ==
  (IF hook["dashboard"].mounted
   THEN <<Call("dashboard", hook["dashboard"].userId, FALSE)>> ELSE <<>>)
  \o (IF hook["form"].mounted
      THEN <<Call("form", hook["form"].userId, FALSE)>> ELSE <<>>)

handleOnline ==
  /\ ~navOnline
  /\ navOnline' = TRUE
  /\ LET calls == OnlineCalls
         hk == [h \in Hooks |-> IF hook[h].mounted
                                THEN [hook[h] EXCEPT !.isOnline = TRUE] ELSE hook[h]]
     IN /\ started + Cardinality(Starting(calls)) <= MaxPasses
        /\ passes' = Launch(passes, calls)
        /\ started' = started + Cardinality(Starting(calls))
        /\ overlapped' = Overlap(Launch(passes, calls))
        /\ hook' = MarkSyncing(hk, calls)
  /\ UNCHANGED <<user, offlineQueue, remoteSales, nextId, now>>
  /\ UNCHANGED notSync

handleOffline ==
  /\ navOnline
  /\ navOnline' = FALSE
  /\ hook' = [h \in Hooks |-> IF hook[h].mounted
                              THEN [hook[h] EXCEPT !.isOnline = FALSE] ELSE hook[h]]
  /\ UNCHANGED <<user, offlineQueue, remoteSales, passes, started, nextId, now,
                 overlapped>>
  /\ UNCHANGED notSync

\* pages/Dashboard's effect runs again when AuthContext sets a new user
\* object: it calls the syncOfflineSales of the current render, whose closure
\* holds the instance's current syncing flag.
ManualSync ==
  /\ hook["dashboard"].mounted
  /\ LET calls == <<Call("dashboard", user, hook["dashboard"].syncing)>>
     IN /\ started + Cardinality(Starting(calls)) <= MaxPasses
        /\ passes' = Launch(passes, calls)
        /\ started' = started + Cardinality(Starting(calls))
        /\ overlapped' = Overlap(Launch(passes, calls))
        /\ hook' = MarkSyncing(hook, calls)
  /\ UNCHANGED <<user, navOnline, offlineQueue, remoteSales, nextId, now>>
  /\ UNCHANGED notSync

\* if (sale.receipt_file): {} is truthy.
HasReceiptFile(sale) == sale.receipt_file # "undefined"

\* The row syncOfflineSales inserts for a queued sale; origin and owner tell
\* which sale the row was written for and who recorded it, attached whether
\* the sale was recorded with a receipt, and uploaded what the object behind
\* receipt_url was made from.
SyncRow(sale, uid, receiptUrl) ==
  [user_id |-> uid, item_name |-> sale.item_name,
   amount |-> sale.amount, commission |-> sale.commission,
   receipt_url |-> receiptUrl, created_at |-> sale.created_at,
   origin |-> sale.id, owner |-> sale.user_id,
   attached |-> HasReceiptFile(sale),
   uploaded |-> IF receiptUrl = "url" THEN sale.receipt_file ELSE "nothing"]

\* The insert can return without an error: the device has a network and the
\* sink does not refuse the row.  It may still fail (a timeout, a 5xx).
InsertCanSucceed(rejected) == navOnline /\ ~rejected

\* The remote table after the insert of a turn.
Inserted(sale, uid, uploadOk, insertOk) ==
  IF insertOk
  THEN remoteSales (+) SetToBag({SyncRow(sale, uid, IF uploadOk THEN "url" ELSE "null")})
  ELSE remoteSales

\* The pass after a turn of its for loop: successCount++ or failedSales.push(sale).
Turn(r, insertOk) ==
  IF insertOk
  THEN [r EXCEPT !.idx = @ + 1, !.successCount = @ + 1]
  ELSE [r EXCEPT !.idx = @ + 1, !.failedSales = Append(@, r.offlineSales[r.idx])]

\* A pass that writes back every sale it read.
QueueAfterPass_all(r) == r.offlineSales

\* What the pass writes back to localStorage after the loop.
QueueAfterPass(r) == r.failedSales

\* After the loop, in the same run of the event loop as the last turn: the
\* failed sales replace the queue and setSyncing(false).  The call p, whose
\* locals are then r, is over.
Finish(p, r) ==
  /\ offlineQueue' = QueueAfterPass(r)
  /\ hook' = [h \in Hooks |-> IF h = r.hook
                              THEN [hook[h] EXCEPT !.syncing = FALSE] ELSE hook[h]]
  /\ passes' = passes (-) SetToBag({p})

\* A loop that its first failed insert ends: the error leaves the for loop.
SyncRecord_abort(p) ==
  /\ p.idx < Len(p.offlineSales)
  /\ LET sale == p.offlineSales[p.idx]
     IN \E insertOk \in BOOLEAN :
          /\ insertOk => InsertCanSucceed(sale.rejected)
          /\ remoteSales' = Inserted(sale, p.userId, FALSE, insertOk)
          /\ IF insertOk
             THEN /\ passes' = (passes (-) SetToBag({p}))
                                  (+) SetToBag({Turn(p, insertOk)})
                  /\ UNCHANGED <<hook, offlineQueue>>
             ELSE Finish(p, [Turn(p, insertOk) EXCEPT
                               !.idx = Len(p.offlineSales) + 1])
  /\ UNCHANGED <<user, navOnline, started, nextId, now, overlapped>>
  /\ UNCHANGED notSync

\* One turn of the for loop of the call p, not the last: the upload (when a
\* receipt is attached), then the insert.
SyncRecord(p) ==
  /\ p.idx < Len(p.offlineSales)
  /\ LET sale == p.offlineSales[p.idx]
     IN \E uploadOk, insertOk \in BOOLEAN :
          /\ uploadOk => (HasReceiptFile(sale) /\ navOnline)
          /\ insertOk => InsertCanSucceed(sale.rejected)
          /\ remoteSales' = Inserted(sale, p.userId, uploadOk, insertOk)
          /\ passes' = (passes (-) SetToBag({p})) (+) SetToBag({Turn(p, insertOk)})
  /\ UNCHANGED <<user, navOnline, hook, offlineQueue, started, nextId, now,
                 overlapped>>
  /\ UNCHANGED notSync

\* The last turn of the loop and what follows it.
PassFinish(p) ==
  /\ p.idx = Len(p.offlineSales)
  /\ LET sale == p.offlineSales[p.idx]
     IN \E uploadOk, insertOk \in BOOLEAN :
          /\ uploadOk => (HasReceiptFile(sale) /\ navOnline)
          /\ insertOk => InsertCanSucceed(sale.rejected)
          /\ remoteSales' = Inserted(sale, p.userId, uploadOk, insertOk)
          /\ Finish(p, Turn(p, insertOk))
  /\ UNCHANGED <<user, navOnline, started, nextId, now, overlapped>>
  /\ UNCHANGED notSync

\* Dashboard's loadSales, when its request succeeds: the user's rows of the
\* remote table (in created_at order, newest first).
loadSales(uid) == { r \in BagToSet(remoteSales) : r.user_id = uid }

\* ----------------------------------------------- components/SalesForm.tsx
\* A saveOfflineSale that puts the new sale in front of the queue.
SubmitOffline_unshift(in) ==
  /\ hook["form"].mounted
  /\ ~hook["form"].isOnline
  /\ nextId <= MaxSales
  /\ now' = now + 1
  /\ offlineQueue' = <<NewOfflineSale(in, user, nextId, now + 1)>>
                        \o getOfflineSales
  /\ nextId' = nextId + 1
  /\ UNCHANGED <<user, navOnline, hook, remoteSales, passes, started, overlapped>>
  /\ UNCHANGED notSync

\* handleSubmit while the form's isOnline is false: saveOfflineSale appends
\* the sale to the queue.
SubmitOffline(in) ==
  /\ hook["form"].mounted
  /\ ~hook["form"].isOnline
  /\ nextId <= MaxSales
  /\ now' = now + 1
  /\ offlineQueue' = Append(getOfflineSales,
                            NewOfflineSale(in, user, nextId, now + 1))
  /\ nextId' = nextId + 1
  /\ UNCHANGED <<user, navOnline, hook, remoteSales, passes, started, overlapped>>
  /\ UNCHANGED notSync

\* saleSchema: the longest item name it lets through.
MaxNameLen == 200

RECURSIVE StrLen(_)
StrLen(s) == IF s = <<>> THEN 0 ELSE Head(s).n + StrLen(Tail(s))

RECURSIVE TrimStart(_)
TrimStart(s) ==
  IF s # <<>> /\ Head(s).ch = " " THEN TrimStart(Tail(s)) ELSE s

RECURSIVE TrimEnd(_)
TrimEnd(s) ==
  IF s # <<>> /\ s[Len(s)].ch = " " THEN TrimEnd(SubSeq(s, 1, Len(s) - 1)) ELSE s

\* String.prototype.trim, and zod's .trim().
Trim(s) == TrimEnd(TrimStart(s))

\* A form as the user submits it at the local hour `hours': the item name, the
\* amount field parsed by parseFloat (NaN, or a number given in cents), the
\* receipt file, and whether the remote sink refuses the row for good.
ValidForm ==
  [hours |-> 12,
   itemName |-> <<[ch |-> " ", n |-> 1], [ch |-> "a", n |-> MaxNameLen],
                  [ch |-> " ", n |-> 1]>>,
   amount |-> [nan |-> FALSE, cents |-> 250000],
   receipt |-> TRUE, rejected |-> FALSE]

FormInputs ==
  { ValidForm,
    [ValidForm EXCEPT !.itemName = <<[ch |-> "a", n |-> 1]>>,
                      !.amount.cents = 33, !.receipt = FALSE, !.rejected = TRUE],
    [ValidForm EXCEPT !.hours = 6],
    [ValidForm EXCEPT !.itemName = <<>>],
    [ValidForm EXCEPT !.itemName = <<[ch |-> " ", n |-> 3]>>],
    [ValidForm EXCEPT !.itemName = <<[ch |-> "a", n |-> MaxNameLen + 1]>>],
    [ValidForm EXCEPT !.amount.cents = 0],
    [ValidForm EXCEPT !.amount.cents = -100],
    [ValidForm EXCEPT !.amount.nan = TRUE] }

isWithinBusinessHours(hours) == hours >= 7 /\ hours < 21

\* A schema that lets every number through as the amount.
saleSchema_anyAmount(f) ==
  LET itemName == Trim(Trim(f.itemName))
  IN StrLen(itemName) >= 1 /\ StrLen(itemName) <= MaxNameLen /\ ~f.amount.nan

\* saleSchema.parse({itemName: itemName.trim(), amount: parseFloat(amount)})
\* returns and does not throw a ZodError.
saleSchema(f) ==
  LET itemName == Trim(Trim(f.itemName))
  IN /\ StrLen(itemName) >= 1 /\ StrLen(itemName) <= MaxNameLen
     /\ ~f.amount.nan /\ f.amount.cents > 0

\* What parse returns.
Validated(f) ==
  [cents |-> f.amount.cents, receipt |-> f.receipt, rejected |-> f.rejected,
   itemName |-> Trim(Trim(f.itemName))]

NoSubmit == [outcome |-> "none", id |-> 0, reset |-> FALSE, added |-> FALSE]

\* handleSubmit ran to the end of its try block: the form is reset and
\* onSaleAdded is called.
Completed(outcome, id) ==
  [outcome |-> outcome, id |-> id, reset |-> TRUE, added |-> TRUE]

\* handleSubmit ended in its catch block, with a toast.
Thrown(outcome, id) ==
  [outcome |-> outcome, id |-> id, reset |-> FALSE, added |-> FALSE]

\* The row handleSubmit inserts while online; created_at is the table's default.
FormRow(in, uid, receiptUrl, id, t) ==
  [user_id |-> uid, item_name |-> in.itemName,
   amount |-> 100 * in.cents, commission |-> FormCommission(in.cents),
   receipt_url |-> receiptUrl, created_at |-> t, origin |-> id, owner |-> uid,
   attached |-> in.receipt,
   uploaded |-> IF receiptUrl = "url" THEN "File" ELSE "nothing"]

\* The offline branch: saveOfflineSale catches what localStorage.setItem
\* throws and returns {success: false}; handleSubmit does not look at what it
\* returns.
SubmitWhileOffline(in) ==
  \E stored \in BOOLEAN :
    /\ offlineQueue' = IF stored
                       THEN Append(getOfflineSales,
                                   NewOfflineSale(in, user, nextId, now + 1))
                       ELSE offlineQueue
    /\ formLast' = Completed(IF stored THEN "offline" ELSE "storage_failed", nextId)
    /\ UNCHANGED remoteSales

\* The online branch: the upload of the receipt, then the insert; either can
\* fail, and handleSubmit then throws.
SubmitWhileOnline(in) ==
  \E uploadOk, insertOk \in BOOLEAN :
    /\ uploadOk => (in.receipt /\ navOnline)
    /\ insertOk => ((in.receipt => uploadOk) /\ InsertCanSucceed(in.rejected))
    /\ remoteSales' =
         IF insertOk
         THEN remoteSales (+) SetToBag({FormRow(in, user,
                                                IF in.receipt THEN "url" ELSE "null",
                                                nextId, now + 1)})
         ELSE remoteSales
    /\ formLast' = IF insertOk THEN Completed("added", nextId)
                   ELSE Thrown("remote_failed", nextId)
    /\ UNCHANGED offlineQueue

\* handleSubmit of the form the signed-in user has open.
handleSubmit(f) ==
  /\ user # NoUser
  /\ hook["form"].mounted
  /\ IF ~isWithinBusinessHours(f.hours)
     THEN /\ formLast' = Thrown("closed", 0)
          /\ UNCHANGED <<offlineQueue, remoteSales, nextId, now>>
     ELSE IF ~saleSchema(f)
     THEN /\ formLast' = Thrown("invalid", 0)
          /\ UNCHANGED <<offlineQueue, remoteSales, nextId, now>>
     ELSE /\ nextId <= MaxSales
          /\ nextId' = nextId + 1
          /\ now' = now + 1
          /\ IF ~hook["form"].isOnline
             THEN SubmitWhileOffline(Validated(f))
             ELSE SubmitWhileOnline(Validated(f))
  /\ UNCHANGED <<user, navOnline, hook, passes, started, overlapped>>
  /\ UNCHANGED <<clock, dbVars, apiVars, supaVars, otherVars>>

\* ------------------------------------------------------------ environment
SignIn(u) ==
  /\ user = NoUser
  /\ user' = u
  /\ UNCHANGED <<navOnline, hook, offlineQueue, remoteSales, passes, started,
                 nextId, now,
                 overlapped>>
  /\ UNCHANGED notSync

\* signOut: AuthContext clears the user and navigates to '/'; the dashboard
\* and the form unmount, the passes in flight run on.
SignOut ==
  /\ user # NoUser
  /\ user' = NoUser
  /\ hook' = [h \in Hooks |-> Unmounted]
  /\ passes' = Orphan(Orphan(passes, "form"), "dashboard")
  /\ UNCHANGED <<navOnline, offlineQueue, remoteSales, started, nextId, now,
                 overlapped>>
  /\ UNCHANGED notSync

\* ------------------------------------------- services/api over IndexedDB
Hour == 60 * 60 * 1000

Day == 24 * Hour

\* The retention window of cleanupOldSales.
RetentionMs == 48 * 60 * 60 * 1000

\* How far one step moves the clock.
TickSteps == {1, 24 * Hour, 25 * Hour}

\* The clock advances.
Tick(d) ==
  /\ d = 1 => (clock % Hour) < MaxMs
  /\ clock + d <= MaxHours * Hour + MaxMs
  /\ clock' = clock + d
  /\ UNCHANGED <<syncVars, dbVars, apiVars, formVars, supaVars, otherVars>>

\* The days a date input can name, counted from the clock's zero.
Days == 0..(MaxHours \div 24)

\* saveSaleLocally called without its third argument.
Undefined == "undefined"

OwnerKeys == Users \cup {Undefined}

\* saleData.amount, a decimal string, in thousandths.
DbInputs == { [milli |-> 2500000] }

NoOp ==
  [op |-> "none", user |-> NoUser, id |-> 0, at |-> 0, start |-> 0, end |-> 0,
   before |-> {}]

\* The record saveSaleLocally builds at time t.
NewSale(in, username, t) ==
  [id |-> t, username |-> username,
   amount_cents |-> Round(in.milli, 10),
   commission_cents |-> Round(2 * in.milli, 1000),
   created_at |-> t]

\* store.put: the record takes the place of the one with its key.
Put(db, sale) == { s \in db : s.id # sale.id } \cup {sale}

saveSaleToDB(sale) == Put(idb, sale)

\* A listing that leaves the filter on username out.
getSalesFromDB_all(username) == idb

getSalesFromDB(username) == { s \in idb : s.username = username }

getSales(username) == getSalesFromDB(username)

\* store.getAll() hands the records over in the order of their keys.
RECURSIVE InKeyOrder(_)
InKeyOrder(S) ==
  IF S = {} THEN <<>>
  ELSE LET first == CHOOSE s \in S : \A t \in S : s.id <= t.id
       IN <<first>> \o InKeyOrder(S \ {first})

\* The list the dashboard hands to SalesList: what getSales resolved to, in
\* the order getSalesFromDB's filter left it in.
listSales(username) == InKeyOrder(getSales(username))

\* The requests of the transaction run in the order they were made: getAll,
\* the puts, then the deletes that getAll's onsuccess makes.
replaceUserSalesInDB(username, sales) ==
  LET userSales == { s \in idb : s.username = username }
      afterPuts == { s \in idb : s.id \notin { x.id : x \in sales } } \cup sales
  IN { s \in afterPuts : s.id \notin { x.id : x \in userSales } }

replaceUserSales(username, sales) == replaceUserSalesInDB(username, sales)

\* saveSaleLocally(saleData, receiptFile, username).
SaveSaleLocally(in, u) ==
  /\ Cardinality(idb) < MaxDbSales
  /\ idb' = saveSaleToDB(NewSale(in, u, clock))
  /\ dbOp' = [NoOp EXCEPT !.op = "save", !.user = u, !.id = clock, !.at = clock]
  /\ UNCHANGED <<clock, lsSales>>
  /\ UNCHANGED notDb

\* createSale(saleData, receiptFile) of the form the user u has open: it
\* calls saveSaleLocally without a username.
CreateSale(in, u) ==
  /\ Cardinality(idb) < MaxDbSales
  /\ idb' = saveSaleToDB(NewSale(in, Undefined, clock))
  /\ dbOp' = [NoOp EXCEPT !.op = "create", !.user = u, !.id = clock, !.at = clock]
  /\ UNCHANGED <<clock, lsSales>>
  /\ UNCHANGED notDb

getSalesFromStorage(username) == lsSales[username]

\* cleanupOldSales(username): filters the list under the user's localStorage key.
CleanupOldSales(u) ==
  /\ LET sales == getSalesFromStorage(u)
         cutoffTime == clock - RetentionMs
         filteredSales == SelectSeq(sales, LAMBDA s : s.created_at > cutoffTime)
     IN lsSales' = IF Len(filteredSales) # Len(sales)
                   THEN [lsSales EXCEPT ![u] = filteredSales]
                   ELSE lsSales
  /\ dbOp' = [NoOp EXCEPT !.op = "cleanup", !.user = u, !.at = clock]
  /\ UNCHANGED <<clock, idb>>
  /\ UNCHANGED notDb

\* deleteSalesByDateRange(startDate, endDate) of the dashboard of user u, the
\* dates given as days d0 and d1: start is the first instant of d0 and end
\* the last millisecond of d1.
DeleteSalesByDateRange(u, d0, d1) ==
  /\ LET allSales == getSales(u)
         start == d0 * Day
         end == d1 * Day + (Day - 1)
         filteredSales == { sale \in allSales :
                              sale.created_at < start \/ sale.created_at > end }
     IN /\ idb' = replaceUserSales(u, filteredSales)
        /\ dbOp' = [NoOp EXCEPT !.op = "delete", !.user = u, !.at = clock,
                                !.start = start, !.end = end, !.before = allSales]
  /\ UNCHANGED <<clock, lsSales>>
  /\ UNCHANGED notDb

\* ------------------------- services/api over Supabase, and its migration
\* The record saveSaleLocally of the localStorage revision pushes on the
\* user's list; a receipt is kept as the data URL fileToBase64 resolves to.
\* serial tells the sales apart.
NewLegacySale(in, receipt, t, serial) ==
  [id |-> t, user_id |-> 1,
   amount_cents |-> Round(in.milli, 10),
   commission_cents |-> Round(2 * in.milli, 1000),
   photo_path |-> IF receipt THEN "data:image" ELSE "null",
   created_at |-> t, serial |-> serial]

\* saveSaleLocally(saleData, receiptFile, username) of the localStorage revision.
LegacySave(in, receipt, u) ==
  /\ legacySaved < MaxLegacySales
  /\ lsSales' = [lsSales EXCEPT
                   ![u] = Append(getSalesFromStorage(u),
                                 NewLegacySale(in, receipt, clock, legacySaved + 1))]
  /\ legacySaved' = legacySaved + 1
  /\ UNCHANGED <<clock, idb, dbOp, credentials, supaSales, mig>>
  /\ UNCHANGED <<syncVars, apiVars, formVars, otherVars>>

saveUserCredentials(u) ==
  /\ credentials' = u
  /\ UNCHANGED <<clock, dbVars, supaSales, mig, legacySaved>>
  /\ UNCHANGED <<syncVars, apiVars, formVars, otherVars>>

getUserCredentials == credentials

\* getUserAvatar is an async function and is called without await: what
\* comes back is a promise, which is truthy.
localAvatarIsTruthy == TRUE

hasLocalDataToMigrate ==
  IF getUserCredentials = NoUser THEN FALSE
  ELSE Len(getSalesFromStorage(getUserCredentials)) > 0 \/ localAvatarIsTruthy

\* The row migrateLocalDataToSupabase inserts for a local sale at time t:
\* created_at is left to the table's default, now().  born and origin tell
\* when the sale was created and which sale it is.
MigratedRow(sale, uid, t) ==
  [user_id |-> uid, amount_cents |-> sale.amount_cents,
   commission_cents |-> sale.commission_cents, photo_url |-> sale.photo_path,
   created_at |-> t, born |-> sale.created_at, origin |-> sale.serial]

RECURSIVE salesToInsert(_, _, _)
salesToInsert(localSales, uid, t) ==
  IF localSales = <<>> THEN EmptyBag
  ELSE SetToBag({MigratedRow(Head(localSales), uid, t)})
       (+) salesToInsert(Tail(localSales), uid, t)

IdleMig ==
  [pc |-> "idle", username |-> NoUser, localSales |-> <<>>, uid |-> NoUser,
   result |-> "none"]

\* migrateLocalDataToSupabase up to its insert: the session's user, the local
\* credentials, the local sales.  The calls are made one after the other.
MigrateStart ==
  /\ mig.pc = "idle"
  /\ mig' = IF user = NoUser THEN [IdleMig EXCEPT !.result = "failed"]
            ELSE IF getUserCredentials = NoUser
            THEN [IdleMig EXCEPT !.result = "no local data"]
            ELSE LET localSales == getSalesFromStorage(getUserCredentials)
                 IN [pc |-> IF Len(localSales) > 0 THEN "insert" ELSE "clear",
                     username |-> getUserCredentials, localSales |-> localSales,
                     uid |-> user, result |-> "none"]
  /\ UNCHANGED <<clock, dbVars, credentials, supaSales, legacySaved>>
  /\ UNCHANGED <<syncVars, apiVars, formVars, otherVars>>

\* The insert of all the local sales in one request; an error ends the call.
MigrateInsert ==
  /\ mig.pc = "insert"
  /\ \E inserted \in BOOLEAN :
       IF inserted
       THEN /\ supaSales' = supaSales (+) salesToInsert(mig.localSales, mig.uid, clock)
            /\ mig' = [mig EXCEPT !.pc = "clear"]
       ELSE /\ supaSales' = supaSales
            /\ mig' = [IdleMig EXCEPT !.result = "failed"]
  /\ UNCHANGED <<clock, dbVars, credentials, legacySaved>>
  /\ UNCHANGED <<syncVars, apiVars, formVars, otherVars>>

\* A migration that leaves the local data where it is.
MigrateClear_keep ==
  /\ mig.pc = "clear"
  /\ mig' = [IdleMig EXCEPT !.result = "migrated"]
  /\ UNCHANGED <<clock, dbVars, credentials, supaSales, legacySaved>>
  /\ UNCHANGED <<syncVars, apiVars, formVars, otherVars>>

\* After the avatar: the three removeItem calls, and {migrated: true}.
MigrateClear ==
  /\ mig.pc = "clear"
  /\ credentials' = NoUser
  /\ lsSales' = [lsSales EXCEPT ![mig.username] = <<>>]
  /\ mig' = [IdleMig EXCEPT !.result = "migrated"]
  /\ UNCHANGED <<clock, idb, dbOp, supaSales, legacySaved>>
  /\ UNCHANGED <<syncVars, apiVars, formVars, otherVars>>

\* getSales of the Supabase revision: the rows of the session's user.
supaGetSales(uid) == { r \in BagToSet(supaSales) : r.user_id = uid }

\* The rows `kept' of the table, inserted again at time t: the insert names
\* neither id nor created_at, which take the table's defaults.
RECURSIVE Reinserted(_, _)
Reinserted(kept, t) ==
  IF kept = {} THEN EmptyBag
  ELSE LET r == CHOOSE x \in kept : TRUE
       IN [x \in {[r EXCEPT !.created_at = t]} |-> CopiesIn(r, supaSales)]
          (+) Reinserted(kept \ {r}, t)

\* replaceUserSales of the Supabase revision: the delete of the user's rows,
\* then the insert of the sales handed over; either request can fail.
supaReplaceUserSales(uid, sales, t, deleted, inserted) ==
  LET others == [r \in { x \in BagToSet(supaSales) : x.user_id # uid }
                   |-> CopiesIn(r, supaSales)]
  IN IF ~deleted THEN supaSales
     ELSE IF ~inserted THEN others
     ELSE others (+) Reinserted(sales, t)

\* deleteSalesByDateRange of the dashboard over the Supabase revision; getSales
\* resolves to [] when its request fails.
SupaDeleteSalesByDateRange(d0, d1) ==
  /\ user # NoUser
  /\ \E fetched, deleted, inserted \in BOOLEAN :
       LET allSales == IF fetched THEN supaGetSales(user) ELSE {}
           start == d0 * Day
           end == d1 * Day + (Day - 1)
           filteredSales == { sale \in allSales :
                                sale.created_at < start \/ sale.created_at > end }
       IN supaSales' = supaReplaceUserSales(user, filteredSales, clock,
                                            deleted, inserted)
  /\ UNCHANGED <<clock, dbVars, credentials, mig, legacySaved>>
  /\ UNCHANGED <<syncVars, apiVars, formVars, otherVars>>

\* -------------------------------------------------------- services/api.js
IdleSync == [pc |-> "idle", localSales |-> <<>>, idx |-> 1, failed |-> {}]

\* saveSaleLocally(saleData, receiptFile): the record is pushed on the one list.
NewLocalSale(in, t) ==
  [id |-> t, user_id |-> 1,
   amount_cents |-> Round(in.milli, 10),
   commission_cents |-> Round(2 * in.milli, 1000),
   created_at |-> t]

SaveSaleLocallyApi(in) ==
  /\ apiSaved < MaxApiSales
  /\ salesData' = Append(salesData, NewLocalSale(in, clock))
  /\ apiSaved' = apiSaved + 1
  /\ UNCHANGED <<clock, backendSales, apiSync, apiEnded>>
  /\ UNCHANGED notApi

\* syncLocalSalesToBackend reads the list and returns if it is empty.
SyncLocalSalesToBackend ==
  /\ apiSync.pc = "idle"
  /\ apiSync' = IF Len(salesData) = 0 THEN apiSync
                ELSE [pc |-> "run", localSales |-> salesData, idx |-> 1,
                      failed |-> {}]
  /\ UNCHANGED <<clock, salesData, backendSales, apiEnded, apiSaved>>
  /\ UNCHANGED notApi

\* One turn of its loop: createSale posts the sale; an error is caught and
\* logged, and the loop goes on.
SyncLocalSale ==
  /\ apiSync.pc = "run"
  /\ apiSync.idx <= Len(apiSync.localSales)
  /\ LET sale == apiSync.localSales[apiSync.idx]
     IN \E created \in BOOLEAN :
          IF created
          THEN /\ backendSales' = backendSales (+)
                     SetToBag({[amount_cents |-> sale.amount_cents,
                                origin |-> sale.id]})
               /\ apiSync' = [apiSync EXCEPT !.idx = @ + 1]
          ELSE /\ backendSales' = backendSales
               /\ apiSync' = [apiSync EXCEPT !.idx = @ + 1,
                                             !.failed = @ \cup {sale.id}]
  /\ UNCHANGED <<clock, salesData, apiEnded, apiSaved>>
  /\ UNCHANGED notApi

\* After the loop: localStorage.removeItem(SALES_STORAGE_KEY).
SyncLocalClear ==
  /\ apiSync.pc = "run"
  /\ apiSync.idx > Len(apiSync.localSales)
  /\ salesData' = <<>>
  /\ apiEnded' = [apiSync EXCEPT !.pc = "ended"]
  /\ apiSync' = IdleSync
  /\ UNCHANGED <<clock, backendSales, apiSaved>>
  /\ UNCHANGED notApi

\* cleanupOldSales() of services/api.js: it keeps the sales of the one list
\* that are newer than the cutoff, and writes the list back if one was dropped.
cleanupOldSales ==
  /\ LET sales == salesData
         cutoffTime == clock - RetentionMs
         filteredSales == SelectSeq(sales, LAMBDA s : s.created_at > cutoffTime)
     IN salesData' = IF Len(filteredSales) # Len(sales) THEN filteredSales
                     ELSE salesData
  /\ dbOp' = [NoOp EXCEPT !.op = "cleanup", !.at = clock]
  /\ UNCHANGED <<clock, idb, lsSales>>
  /\ UNCHANGED <<backendSales, apiSync, apiEnded, apiSaved>>
  /\ UNCHANGED <<syncVars, formVars, supaVars, otherVars>>

\* ----------------------------- useWeeklyDataCleanup, and a full localStorage
\* checkForWeeklyCleanup, when it runs on a Monday between 6 and 7 for the
\* first time that day: the dialog opens if services/api's list holds a sale.
\* The dashboard hosts the hook and its dialog.
checkForWeeklyCleanup ==
  /\ hook["dashboard"].mounted
  /\ ~showCleanupDialog
  /\ Len(salesData) > 0
  /\ showCleanupDialog' = TRUE
  /\ UNCHANGED <<syncVars, clock, dbVars, apiVars, formVars, supaVars, authVars>>

\* confirmCleanup: the dialog's confirm button removes four keys of
\* localStorage, the offline queue among them.
confirmCleanup ==
  /\ showCleanupDialog
  /\ salesData' = <<>>
  /\ credentials' = NoUser
  /\ offlineQueue' = <<>>
  /\ showCleanupDialog' = FALSE
  /\ UNCHANGED <<user, navOnline, hook, remoteSales, passes, started, nextId, now,
                 overlapped>>
  /\ UNCHANGED <<backendSales, apiSync, apiEnded, apiSaved>>
  /\ UNCHANGED <<supaSales, mig, legacySaved>>
  /\ UNCHANGED <<clock, dbVars, formVars, authVars>>

dismissCleanup ==
  /\ showCleanupDialog
  /\ showCleanupDialog' = FALSE
  /\ UNCHANGED <<syncVars, clock, dbVars, apiVars, formVars, supaVars, authVars>>

\* The last turn of the loop of the call p, when the localStorage.setItem
\* that follows the loop throws: the exception leaves syncOfflineSales, which
\* has no try around that line, so neither the queue nor the syncing flag is
\* written.
PassFinishThrows(p) ==
  /\ p.idx = Len(p.offlineSales)
  /\ LET sale == p.offlineSales[p.idx]
     IN \E uploadOk, insertOk \in BOOLEAN :
          /\ uploadOk => (HasReceiptFile(sale) /\ navOnline)
          /\ insertOk => InsertCanSucceed(sale.rejected)
          /\ remoteSales' = Inserted(sale, p.userId, uploadOk, insertOk)
  /\ passes' = passes (-) SetToBag({p})
  /\ UNCHANGED <<user, navOnline, hook, offlineQueue, started, nextId, now,
                 overlapped>>
  /\ UNCHANGED notSync

\* ------------------------------------------------ contexts/AuthContext.tsx
\* The retries a fetchProfile closure allows itself.
maxRetries == 5

\* What a request for the profile row can come to: the row, an error (or no
\* row), or an exception.
Outcomes == {"profile", "error", "threw"}

\* The fetchProfile of one auth-state event that carries a session, at its
\* first request; sent is the session the client holds when the request goes.
NewFetch(uid) == [uid |-> uid, retries |-> 0, pc |-> "request", sent |-> uid]

\* retries++; setTimeout(fetchProfile, 1000 * retries).
Retry(f) == [f EXCEPT !.retries = @ + 1, !.pc = "timer", !.sent = NoUser]

\* The fetchProfile closures after the catch block: one more timer, or none.
AfterThrow(f) ==
  IF f.retries < maxRetries
  THEN (fetches (-) SetToBag({f})) (+) SetToBag({Retry(f)})
  ELSE fetches (-) SetToBag({f})

\* The callback of supabase.auth.onAuthStateChange for an event with the
\* session sess (NoUser: none).  After the effect's cleanup it is no longer
\* called.
onAuthStateChange(sess) ==
  /\ authEvents < MaxAuthEvents
  /\ authEvents' = authEvents + 1
  /\ session' = sess
  /\ IF ~mounted THEN UNCHANGED <<user, fetches>>
     ELSE IF sess # NoUser
     THEN /\ fetches' = fetches (+) SetToBag({NewFetch(sess)})
          /\ UNCHANGED user
     ELSE /\ user' = NoUser
          /\ UNCHANGED fetches
  /\ UNCHANGED mounted
  /\ UNCHANGED <<navOnline, hook, offlineQueue, remoteSales, passes, started,
                 nextId, now, overlapped>>
  /\ UNCHANGED <<clock, dbVars, apiVars, formVars, supaVars, weeklyVars>>

\* A request of the closure f returns or throws, and fetchProfile runs to its
\* end.  The profiles table lets a user read only the own row, so the row
\* comes back only to a request sent under that user's session.
fetchProfile(f, outcome) ==
  /\ f.pc = "request"
  /\ outcome = "profile" => f.sent = f.uid
  /\ IF outcome = "threw"
     THEN /\ fetches' = AfterThrow(f)
          /\ UNCHANGED user
     ELSE IF outcome = "profile" /\ mounted
     THEN /\ user' = f.uid
          /\ fetches' = fetches (-) SetToBag({f})
     ELSE IF f.retries < maxRetries
     THEN /\ fetches' = (fetches (-) SetToBag({f})) (+) SetToBag({Retry(f)})
          /\ UNCHANGED user
     ELSE /\ user' = IF mounted THEN f.uid ELSE user
          /\ fetches' = fetches (-) SetToBag({f})
  /\ UNCHANGED <<session, mounted, authEvents>>
  /\ UNCHANGED <<navOnline, hook, offlineQueue, remoteSales, passes, started,
                 nextId, now, overlapped>>
  /\ UNCHANGED <<clock, dbVars, apiVars, formVars, supaVars, weeklyVars>>

\* The timer of the closure f fires: fetchProfile sends its next request.
timerFires(f) ==
  /\ f.pc = "timer"
  /\ fetches' = (fetches (-) SetToBag({f}))
                  (+) SetToBag({[f EXCEPT !.pc = "request", !.sent = session]})
  /\ UNCHANGED <<session, mounted, authEvents>>
  /\ UNCHANGED <<syncVars, clock, dbVars, apiVars, formVars, supaVars, weeklyVars>>

\* The effect's cleanup: mounted = false; subscription.unsubscribe().  The
\* timers stay.
unmountProvider ==
  /\ mounted
  /\ mounted' = FALSE
  /\ UNCHANGED <<session, fetches, authEvents>>
  /\ UNCHANGED <<syncVars, clock, dbVars, apiVars, formVars, supaVars, weeklyVars>>

\* ------------------------------------------------------------------ system
Init ==
  /\ user = NoUser
  /\ navOnline \in BOOLEAN
  /\ hook = [h \in Hooks |-> Unmounted]
  /\ offlineQueue = <<>>
  /\ remoteSales = EmptyBag
  /\ passes = EmptyBag
  /\ started = 0
  /\ nextId = 1
  /\ now = 0
  /\ overlapped = FALSE
  /\ clock = 0
  /\ idb = {}
  /\ lsSales = [k \in OwnerKeys |-> <<>>]
  /\ dbOp = NoOp
  /\ salesData = <<>>
  /\ backendSales = EmptyBag
  /\ apiSync = IdleSync
  /\ apiEnded = IdleSync
  /\ apiSaved = 0
  /\ formLast = NoSubmit
  /\ credentials = NoUser
  /\ supaSales = EmptyBag
  /\ mig = IdleMig
  /\ legacySaved = 0
  /\ showCleanupDialog = FALSE
  /\ session = NoUser
  /\ mounted = TRUE
  /\ fetches = EmptyBag
  /\ authEvents = 0

\* The offline queue, its hooks and the form.
Next ==
  \/ MountDashboard
  \/ MountForm
  \/ UnmountForm
  \/ handleOnline
  \/ handleOffline
  \/ ManualSync
  \/ \E p \in BagToSet(passes) : SyncRecord(p)
  \/ \E p \in BagToSet(passes) : PassFinish(p)
  \/ \E in \in SaleInputs : SubmitOffline(in)
  \/ SignIn("A")

Spec == Init /\ [][Next]_vars

\* The form with both of its branches, for one user whose "Add Sale" tab
\* stays open.
NextForm ==
  \/ MountDashboard
  \/ handleOnline
  \/ handleOffline
  \/ \E p \in BagToSet(passes) : SyncRecord(p)
  \/ \E p \in BagToSet(passes) : PassFinish(p)
  \/ \E f \in FormInputs : handleSubmit(f)
  \/ SignIn("A")

SpecForm == Init /\ [][NextForm]_vars

\* Users who take turns on one device, hence on one localStorage.
NextOwner ==
  \/ MountDashboard
  \/ handleOnline
  \/ handleOffline
  \/ \E p \in BagToSet(passes) : SyncRecord(p)
  \/ \E p \in BagToSet(passes) : PassFinish(p)
  \/ \E in \in SaleInputs : SubmitOffline(in)
  \/ \E u \in Users : SignIn(u)
  \/ SignOut

SpecOwner == Init /\ [][NextOwner]_vars

\* The IndexedDB store and the dashboard.
NextDB ==
  \/ \E d \in TickSteps : Tick(d)
  \/ \E in \in DbInputs, u \in Users : SaveSaleLocally(in, u)
  \/ \E in \in DbInputs, u \in Users : CreateSale(in, u)
  \/ \E u \in Users : CleanupOldSales(u)
  \/ \E u \in Users, d0, d1 \in Days : DeleteSalesByDateRange(u, d0, d1)

SpecDB == Init /\ [][NextDB]_vars

\* The Supabase revision of services/api and the data the localStorage
\* revision left on the device.
NextSupa ==
  \/ Tick(Day)
  \/ SignIn("A")
  \/ \E u \in Users : saveUserCredentials(u)
  \/ \E in \in DbInputs, receipt \in BOOLEAN, u \in Users : LegacySave(in, receipt, u)
  \/ MigrateStart
  \/ MigrateInsert
  \/ MigrateClear
  \/ \E d \in Days : SupaDeleteSalesByDateRange(d, d)

SpecSupa == Init /\ [][NextSupa]_vars

\* services/api.js.
NextApi ==
  \/ Tick(1)
  \/ \E in \in DbInputs : SaveSaleLocallyApi(in)
  \/ SyncLocalSalesToBackend
  \/ SyncLocalSale
  \/ SyncLocalClear

SpecApi == Init /\ [][NextApi]_vars

\* services/api.js: its list and its sweep, over two days.
NextSweep ==
  \/ \E d \in TickSteps : Tick(d)
  \/ \E in \in DbInputs : SaveSaleLocallyApi(in)
  \/ cleanupOldSales

SpecSweep == Init /\ [][NextSweep]_vars

\* AuthProvider, the auth-state events and the profile requests.
NextAuth ==
  \/ \E sess \in Users \cup {NoUser} : onAuthStateChange(sess)
  \/ \E f \in BagToSet(fetches), outcome \in Outcomes : fetchProfile(f, outcome)
  \/ \E f \in BagToSet(fetches) : timerFires(f)
  \/ unmountProvider

SpecAuth == Init /\ [][NextAuth]_vars

\* The offline queue on a device whose localStorage other code clears, and
\* whose writes can fail.
NextStorage ==
  \/ MountDashboard
  \/ handleOnline
  \/ handleOffline
  \/ ManualSync
  \/ \E p \in BagToSet(passes) : SyncRecord(p)
  \/ \E p \in BagToSet(passes) : PassFinish(p)
  \/ \E p \in BagToSet(passes) : PassFinishThrows(p)
  \/ \E in \in SaleInputs : SubmitOffline(in)
  \/ SignIn("A")
  \/ \E in \in DbInputs : SaveSaleLocallyApi(in)
  \/ checkForWeeklyCleanup
  \/ confirmCleanup
  \/ dismissCleanup

SpecStorage == Init /\ [][NextStorage]_vars

\* ================================================================== claims
\* The sale with this id has a row in the remote table.
WrittenIn(rows, id) == \E r \in BagToSet(rows) : r.origin = id

Written(id) == WrittenIn(remoteSales, id)

\* The number of remote rows written for the sale with this id.
Copies(id) ==
  BagCardinality([r \in { x \in BagToSet(remoteSales) : x.origin = id }
                    |-> CopiesIn(r, remoteSales)])

InQueue(id) == \E s \in Range(offlineQueue) : s.id = id

\* A pass in flight still holds the sale: it has yet to reach it, or it has
\* put it on failedSales, which it writes back when it ends.
HeldByPass(id) ==
  \E p \in BagToSet(passes) :
    \/ \E i \in p.idx..Len(p.offlineSales) : p.offlineSales[i].id = id
    \/ \E s \in Range(p.failedSales) : s.id = id

\* C1: a syncOfflineSales pass ends only from the last sale it read, and when
\* it ends every sale it read is either kept in the queue or has a remote row
\* and is out of the queue; the sales it had put on failedSales and the sales
\* the sink refuses are kept, and nothing else is in the queue: a failed
\* insert stops at its own record.
C1_FailureIsolation ==
  [][\A p \in BagToSet(passes) :
       (/\ BagCardinality(passes') < BagCardinality(passes)
        /\ CopiesIn(p, passes') < CopiesIn(p, passes)) =>
         /\ p.idx = Len(p.offlineSales)
         /\ Range(offlineQueue') \subseteq Range(p.offlineSales)
         /\ Range(p.failedSales) \subseteq Range(offlineQueue')
         /\ \A s \in Range(p.offlineSales) :
              /\ s.rejected => s \in Range(offlineQueue')
              /\ s \notin Range(offlineQueue') => WrittenIn(remoteSales', s.id)]_vars

\* The one pass of the behaviour has ended; it ran over three sales: the sink
\* refused the second, which is kept, and the first and the third are written
\* and out of the queue.
C1_Witness ==
  /\ started = 1 /\ passes = EmptyBag
  /\ nextId = 4
  /\ Len(offlineQueue) = 1 /\ offlineQueue[1].id = 2 /\ offlineQueue[1].rejected
  /\ Written(1) /\ Written(3) /\ ~Written(2)

\* No pass in flight and nothing queued.
Quiet == offlineQueue = <<>> /\ passes = EmptyBag

\* C2: as long as syncOfflineSales passes have run one after the other, no
\* sale has two remote rows; and a trigger that finds the queue empty with no
\* pass in flight starts nothing and changes neither the queue, the remote
\* table nor a syncing flag.
C2_IdempotentSync ==
  /\ [](~overlapped => \A id \in 1..MaxSales : Copies(id) <= 1)
  /\ [][(Quiet /\ nextId' = nextId) =>
         /\ offlineQueue' = offlineQueue
         /\ remoteSales' = remoteSales
         /\ passes' = passes
         /\ \A h \in Hooks : hook'[h].syncing = hook[h].syncing]_vars

\* Two passes have run one after the other; the first wrote a sale and kept
\* another, the second ran over what the first kept.
C2_Witness ==
  /\ ~overlapped
  /\ started = 2 /\ passes = EmptyBag
  /\ \E id \in 1..MaxSales : Copies(id) = 1
  /\ offlineQueue # <<>>

\* C3: every sale that handleSubmit saved while offline is in the queue, held
\* by a pass in flight, or written to the remote table, and holds 2% of its
\* amount as commission; a sale that is nowhere can never be synced.
C3_OfflineThenOnline ==
  /\ \A id \in 1..(nextId - 1) : InQueue(id) \/ HeldByPass(id) \/ Written(id)
  /\ \A s \in Range(offlineQueue) : 50 * s.commission = s.amount

\* C7: every queued sale holds round(amount * 0.02) in minor units (cents) as
\* its commission.
C7_CommissionInvariant ==
  \A s \in Range(offlineQueue) :
    s.commission = 100 * Round(2 * (s.amount \div 100), 100)

C5_RangeDeleteExact ==
  dbOp.op = "delete" =>
    getSales(dbOp.user) =
      { s \in dbOp.before : s.created_at < dbOp.start \/ s.created_at > dbOp.end }

\* C6: after cleanupOldSales the listing of the user holds no record older
\* than the retention window.
C6_RetentionPurge ==
  dbOp.op = "cleanup" =>
    \A s \in getSales(dbOp.user) : s.created_at > dbOp.at - RetentionMs

\* C9: after a syncLocalSalesToBackend pass, every sale whose createSale
\* failed is still in localStorage.
C9_FailedSaleKept ==
  apiEnded.pc = "ended" =>
    \A id \in apiEnded.failed : \E s \in Range(salesData) : s.id = id

\* C10: after createSale or saveSaleLocally for a user, the listing of that
\* user holds the new record.
C10_ListedAfterSave ==
  dbOp.op \in {"save", "create"} =>
    \E s \in getSales(dbOp.user) : s.id = dbOp.id

\* C8: at most one syncOfflineSales pass is in flight.
C8_SinglePass == BagCardinality(passes) <= 1

\* C11: when handleSubmit ran while the form was online and its upload or its
\* insert failed, the sale is in the offline queue.
C11_FallbackOnRemoteFailure ==
  formLast.outcome = "remote_failed" => InQueue(formLast.id)

\* C12: when localStorage.setItem threw inside saveOfflineSale, handleSubmit
\* neither resets the form nor reports the sale as added.
C12_StorageFailureSurfaced ==
  formLast.outcome = "storage_failed" => ~formLast.reset /\ ~formLast.added

ValidName(name) ==
  /\ StrLen(name) >= 1 /\ StrLen(name) <= MaxNameLen
  /\ name = Trim(name)

\* C13: every sale in the queue, held by a pass or written to the remote table
\* has a trimmed item name of 1 to 200 characters and an amount above 0; and a
\* handleSubmit that ends with a validation error changes neither the queue
\* nor the remote table.
C13_Validation ==
  /\ [](/\ \A s \in Range(offlineQueue) : ValidName(s.item_name) /\ s.amount > 0
        /\ \A p \in BagToSet(passes) : \A s \in Range(p.offlineSales) :
             ValidName(s.item_name) /\ s.amount > 0
        /\ \A r \in BagToSet(remoteSales) : ValidName(r.item_name) /\ r.amount > 0)
  /\ [][(formLast'.outcome = "invalid" /\ formLast.outcome # "invalid") =>
          /\ offlineQueue' = offlineQueue
          /\ remoteSales' = remoteSales
          /\ nextId' = nextId]_vars

\* A sale with a name of 200 characters is queued, another is in the remote
\* table, and the last form submitted was refused by the schema.
C13_Witness ==
  /\ formLast.outcome = "invalid"
  /\ \E s \in Range(offlineQueue) : StrLen(s.item_name) = MaxNameLen
  /\ remoteSales # EmptyBag

\* C15: the best list loadSales can give the dashboard of the signed-in user
\* (the user's rows of the remote table) holds every sale of that user that
\* is still in the offline queue.
C15_PendingListed ==
  \A s \in Range(offlineQueue) :
    s.user_id = user => \E r \in loadSales(user) : r.origin = s.id

\* C16: every row of the remote table is written under the id of the user who
\* recorded the sale.
C16_OwnerPartitionOnWrite ==
  \A r \in BagToSet(remoteSales) : r.user_id = r.owner

\* C14: the list of every user is newest first: created_at never increases
\* along it.
C14_NewestFirst ==
  \A u \in Users :
    \A i, j \in 1..Len(listSales(u)) :
      i < j => listSales(u)[i].created_at >= listSales(u)[j].created_at

\* C18: a saveSaleLocally or createSale call that changes the store adds one
\* record to it: the new record's id is the id of no record already stored.
C18_UniqueIds ==
  [][(dbOp'.op \in {"save", "create"} /\ <<idb, dbOp>>' # <<idb, dbOp>>) =>
       Cardinality(idb') = Cardinality(idb) + 1]_vars

\* C17: every row of the Supabase table holds no receipt or a URL.
C17_SyncedHoldReferences ==
  \A r \in BagToSet(supaSales) : r.photo_url \in {"null", "url"}

\* C19: every row of the Supabase table has the created_at its sale was
\* created with.
C19_CreatedAtImmutable ==
  \A r \in BagToSet(supaSales) : r.created_at = r.born

\* The number of rows of the Supabase table written for a local sale.
MigratedCopies(serial) ==
  BagCardinality([r \in { x \in BagToSet(supaSales) : x.origin = serial }
                    |-> CopiesIn(r, supaSales)])

\* C20: over migration calls made one after the other, no local sale has two
\* rows in the Supabase table; and when a call ends with {migrated: true},
\* hasLocalDataToMigrate is false and the list the call read is empty.
C20_MigratesOnce ==
  /\ [](\A serial \in 1..MaxLegacySales : MigratedCopies(serial) <= 1)
  /\ [][(mig.pc = "clear" /\ mig'.pc = "idle") =>
          /\ mig'.result = "migrated"
          /\ ~hasLocalDataToMigrate'
          /\ lsSales'[mig.username] = <<>>]_vars

\* A call has migrated the two local sales; the call after it, the last so
\* far, found no local data and inserted nothing.
C20_Witness ==
  /\ mig.pc = "idle" /\ mig.result = "no local data"
  /\ \A serial \in 1..MaxLegacySales : MigratedCopies(serial) = 1
  /\ ~hasLocalDataToMigrate

\* C21: no remote row written for a sale that was recorded with a receipt has
\* an empty receipt_url: when the upload of a pass fails, the sale is not
\* written as synced, it is kept as failed.
C21_UploadFailureFails ==
  \A r \in BagToSet(remoteSales) : r.attached => r.receipt_url # "null"

\* C22: a sale the sink refuses for good is sent once.  When it is the only
\* sale ever recorded, every pass that starts sends it and nothing else, so
\* passes that ran one after the other to their end number at most one.
C22_TerminalRejectionFinal ==
  (/\ nextId = 2 /\ ~overlapped /\ passes = EmptyBag
   /\ \E s \in Range(offlineQueue) : s.rejected) => started <= 1

\* C24: the object behind the receipt_url of a remote row written for a sale
\* that was recorded with a receipt was made from the File the user attached.
C24_ReceiptSurvivesQueue ==
  \A r \in BagToSet(remoteSales) : r.attached => r.uploaded = "File"

\* The sales are in strictly ascending created_at order.
Ascending(sales) ==
  \A i, j \in 1..Len(sales) : i < j => sales[i].created_at < sales[j].created_at

\* C25: the list a pass runs over, and the list of the sales it keeps as
\* failed, are in ascending created_at order; and every remote row a pass
\* writes is for the sale at its loop index, which is newer than every sale
\* the pass has been over and older than every sale it has yet to reach.
C25_OldestFirst ==
  /\ [](\A p \in BagToSet(passes) :
         Ascending(p.offlineSales) /\ Ascending(p.failedSales))
  /\ [][\A r \in BagToSet(remoteSales') :
         CopiesIn(r, remoteSales') > CopiesIn(r, remoteSales) =>
           \E p \in BagToSet(passes) :
             /\ CopiesIn(p, passes') < CopiesIn(p, passes)
             /\ r.origin = p.offlineSales[p.idx].id
             /\ r.created_at = p.offlineSales[p.idx].created_at
             /\ \A j \in 1..Len(p.offlineSales) :
                  /\ j < p.idx => p.offlineSales[j].created_at < r.created_at
                  /\ j > p.idx => p.offlineSales[j].created_at > r.created_at]_vars

\* The second pass of the behaviour runs over the sale the first pass kept
\* as failed and over a newer sale: it has been over the older of the two,
\* kept it again, and is at the newer one.
C25_Witness ==
  /\ started = 2 /\ ~overlapped /\ Written(1)
  /\ \E p \in BagToSet(passes) :
       /\ Len(p.offlineSales) = 2 /\ p.idx = 2
       /\ p.offlineSales[1].id = 2 /\ p.offlineSales[2].id = 3
       /\ p.failedSales = <<p.offlineSales[1]>>

\* C27: when a pass ends, every sale that is in the queue and that the pass
\* did not read, hence was appended while the pass was in flight, is still
\* in the queue or has a remote row.
C27_NoLostSaleDuringPass ==
  [][\A p \in BagToSet(passes) :
       (/\ BagCardinality(passes') < BagCardinality(passes)
        /\ CopiesIn(p, passes') < CopiesIn(p, passes)) =>
         \A s \in Range(offlineQueue) :
           s \notin Range(p.offlineSales) =>
             s \in Range(offlineQueue') \/ WrittenIn(remoteSales', s.id)]_vars

\* C23: as long as passes have run one after the other, a sale that is out of
\* the queue does not come back into it: a step adds no sale to the queue but
\* the one that is being recorded.
C23_NoResurrection ==
  [][~overlapped' =>
       \A s \in Range(offlineQueue') :
         s \in Range(offlineQueue) \/ s.id = nextId]_vars

\* C28: an instance's syncing flag is set only while a pass that the instance
\* started is in flight.
C28_GuardReleased ==
  \A h \in Hooks :
    hook[h].syncing => \E p \in BagToSet(passes) : p.hook = h

\* C26: a run of cleanupOldSales leaves in the list exactly the sales whose
\* created_at is at or after the cutoff, the time of the run less 48 hours,
\* in their order.
C26_CutoffBoundary ==
  [][(dbOp' # dbOp /\ dbOp'.op = "cleanup") =>
       salesData' = SelectSeq(salesData,
                              LAMBDA s : s.created_at >= dbOp'.at - RetentionMs)]_vars

\* C29: while the client holds no session and user is null, no step sets
\* user; and once the provider's effect is cleaned up, no step sets user.
C29_SignOutNotUndone ==
  /\ [][(session = NoUser /\ session' = NoUser /\ user = NoUser) =>
         user' = NoUser]_vars
  /\ [][~mounted => user' = user]_vars

\* C30: no fetchProfile closure goes past maxRetries retries, that is 1 + 5
\* requests; and when the provider is mounted, the client holds a session and
\* every fetchProfile has come to its end, user is set.
C30_ProfileFetchEnds ==
  /\ \A f \in BagToSet(fetches) : f.retries <= maxRetries
  /\ (mounted /\ session # NoUser /\ fetches = EmptyBag) => user # NoUser
====
